---- MODULE Spec2Model ----
(***************************************************************************)
(* Model of jira-mcp: the JiraClientAdapter (connection lifecycle, error   *)
(* classification), the three tool handlers (ListIssuesTool,               *)
(* CreateIssueTool, AddCommentTool) with their argument validators, and    *)
(* the request handlers of JiraMcpServer.                                  *)
(*                                                                         *)
(* JavaScript values are tagged records ([t |-> "string", v |-> ...]).     *)
(* A string is a sequence of chunks: text that comes from outside (the     *)
(* tracker's failure text, a caller's argument) is spelled one character   *)
(* per chunk, a literal of the source is one chunk holding the literal.    *)
(***************************************************************************)
EXTENDS Integers, Sequences, FiniteSets, TLC

VARIABLES
  client,           \* JiraClientAdapter.client of each adapter: "null" or "JiraApi"
  authType,         \* JiraClientAdapter.config.auth.type of each adapter
  jiraClient,       \* JiraMcpServer.jiraClient: an adapter id, or NoAdapter
  listIssuesTool,   \* JiraMcpServer.listIssuesTool: the adapter the tool holds
  createIssueTool,  \* JiraMcpServer.createIssueTool
  addCommentTool,   \* JiraMcpServer.addCommentTool
  task,             \* the asynchronous calls in flight, one record per slot
  connected,        \* history: some connect() on the adapter has resolved
  probed,           \* history: some connect() on the adapter was rejected
  input             \* the argument bag under validation (validator specifications)

vars == <<client, authType, jiraClient, listIssuesTool, createIssueTool,
          addCommentTool, task, connected, probed, input>>

serverVars == <<jiraClient, listIssuesTool, createIssueTool, addCommentTool>>

(***************************************************************************)
(* Bounds                                                                  *)
(***************************************************************************)
MaxRequests == 2
MaxCallers == 1

Slots == 1..MaxRequests
AdapterIds == 1..MaxRequests
Callers == 1..MaxCallers
NoAdapter == 0

(***************************************************************************)
(* JavaScript values                                                       *)
(***************************************************************************)
Undefined == [t |-> "undefined"]
Null == [t |-> "null"]
Str(s) == [t |-> "string", v |-> s]
Num(n) == [t |-> "number", v |-> n]
Half(n) == [t |-> "number", v |-> n, half |-> TRUE]    \* the number n + 1/2
Obj(fields) == [t |-> "object", v |-> fields]
Bool(b) == [t |-> "boolean", v |-> b]
Arr(s) == [t |-> "array", v |-> s]

\* !x
Falsy(x) ==
  \/ x.t \in {"undefined", "null"}
  \/ x.t = "string" /\ x.v = <<>>
  \/ x.t = "number" /\ x.v = 0 /\ "half" \notin DOMAIN x
  \/ x.t = "boolean" /\ ~x.v

UpperLetters == <<"A","B","C","D","E","F","G","H","I","J","K","L","M",
                  "N","O","P","Q","R","S","T","U","V","W","X","Y","Z">>
LowerLetters == <<"a","b","c","d","e","f","g","h","i","j","k","l","m",
                  "n","o","p","q","r","s","t","u","v","w","x","y","z">>
Digits == {"0","1","2","3","4","5","6","7","8","9"}
WhiteSpace == {" "}

UpperSet == {UpperLetters[i] : i \in 1..Len(UpperLetters)}
LowerSet == {LowerLetters[i] : i \in 1..Len(LowerLetters)}
LowerOf == [c \in UpperSet |->
              LowerLetters[CHOOSE i \in 1..Len(UpperLetters) : UpperLetters[i] = c]]
UpperOf == [c \in LowerSet |->
              UpperLetters[CHOOSE i \in 1..Len(LowerLetters) : LowerLetters[i] = c]]

IsUpper(c) == c \in UpperSet
IsLower(c) == c \in LowerSet
IsDigit(c) == c \in Digits

ToLowerChar(c) == IF c \in UpperSet THEN LowerOf[c] ELSE c
ToUpperChar(c) == IF c \in LowerSet THEN UpperOf[c] ELSE c

\* String.prototype.toLowerCase / toUpperCase
toLowerCase(s) == [i \in 1..Len(s) |-> ToLowerChar(s[i])]
toUpperCase(s) == [i \in 1..Len(s) |-> ToUpperChar(s[i])]

\* String.prototype.includes
includes(s, needle) ==
  \E i \in 0..(Len(s) - Len(needle)) : SubSeq(s, i + 1, i + Len(needle)) = needle

\* String.prototype.startsWith
startsWith(s, prefix) ==
  Len(s) >= Len(prefix) /\ SubSeq(s, 1, Len(prefix)) = prefix

\* String.prototype.trim
RECURSIVE trimStart(_)
trimStart(s) ==
  IF s # <<>> /\ Head(s) \in WhiteSpace THEN trimStart(Tail(s)) ELSE s
RECURSIVE trimEnd(_)
trimEnd(s) ==
  IF s # <<>> /\ s[Len(s)] \in WhiteSpace
    THEN trimEnd(SubSeq(s, 1, Len(s) - 1))
    ELSE s
trim(s) == trimEnd(trimStart(s))

\* Array.prototype.join
RECURSIVE join(_, _)
join(parts, sep) ==
  IF parts = <<>> THEN <<>>
  ELSE IF Len(parts) = 1 THEN parts[1]
  ELSE parts[1] \o sep \o join(Tail(parts), sep)

(***************************************************************************)
(* Texts                                                                   *)
(***************************************************************************)
tUnauthorizedLower == <<"u","n","a","u","t","h","o","r","i","z","e","d">>
tValidationLower == <<"v","a","l","i","d","a","t","i","o","n">>
tInvalidLower == <<"i","n","v","a","l","i","d">>
tUnauthorized == <<"U","n","a","u","t","h","o","r","i","z","e","d">>
tInvalidKey == <<"I","N","V","A","L","I","D"," ","k","e","y">>
tValidation == <<"V","a","l","i","d","a","t","i","o","n">>
tTimeout == <<"E","T","I","M","E","D","O","U","T">>

(***************************************************************************)
(* Errors (src/src/jira/JiraClientAdapter.ts:453-472 and the built-in      *)
(* Error): name, message, cause and field as the constructors set them     *)
(***************************************************************************)
JiraConnectionError(message, cause) ==
  [t |-> "error", name |-> "JiraConnectionError", message |-> message,
   cause |-> cause, field |-> Undefined]
JiraAuthenticationError(message, cause) ==
  [t |-> "error", name |-> "JiraAuthenticationError", message |-> message,
   cause |-> cause, field |-> Undefined]
\* the second constructor parameter of JiraValidationError is `field`
JiraValidationError(message, field) ==
  [t |-> "error", name |-> "JiraValidationError", message |-> message,
   cause |-> Undefined, field |-> field]
Error(message) ==
  [t |-> "error", name |-> "Error", message |-> message,
   cause |-> Undefined, field |-> Undefined]
TypeError(message) ==
  [t |-> "error", name |-> "TypeError", message |-> message,
   cause |-> Undefined, field |-> Undefined]

\* error instanceof Error
InstanceOfError(e) == e.t = "error"

(***************************************************************************)
(* Failures of the jira-client library: what a rejected backend promise    *)
(* carries. A literal string, or an object with any of statusCode, status, *)
(* message, errorMessages, errors.                                         *)
(***************************************************************************)
Failure(statusCode, status, message, errorMessages, errors) ==
  [t |-> "object", statusCode |-> statusCode, status |-> status,
   message |-> message, errorMessages |-> errorMessages, errors |-> errors]

\* error?.statusCode, error?.status, error?.message
PropStatusCode(e) == IF e.t = "object" THEN e.statusCode ELSE Undefined
PropStatus(e) == IF e.t = "object" THEN e.status ELSE Undefined
PropMessage(e) ==
  IF e.t = "object" THEN e.message
  ELSE IF e.t = "error" THEN Str(e.message)
  ELSE Undefined
PropErrorMessages(e) == IF e.t = "object" THEN e.errorMessages ELSE Undefined
PropErrors(e) == IF e.t = "object" THEN e.errors ELSE Undefined

(***************************************************************************)
(* JiraClientAdapter: the synchronous pieces of its methods                *)
(***************************************************************************)
Return(v) == [kind |-> "return", value |-> v]
Throw(e) == [kind |-> "throw", value |-> e]
Await(request) == [kind |-> "await", value |-> request]
NoOutcome == [kind |-> "none", value |-> Undefined]

\* a || b
OrElse(a, b) == IF Falsy(a) THEN b ELSE a

isAuthenticationError(error) ==
  \/ PropStatusCode(error) = Num(401)
  \/ PropStatus(error) = Num(401)
  \/ /\ PropMessage(error).t = "string"
     /\ includes(toLowerCase(PropMessage(error).v), tUnauthorizedLower)

isValidationError(error) ==
  \/ PropStatusCode(error) = Num(400)
  \/ PropStatus(error) = Num(400)
  \/ /\ PropMessage(error).t = "string"
     /\ \/ includes(toLowerCase(PropMessage(error).v), tValidationLower)
        \/ includes(toLowerCase(PropMessage(error).v), tInvalidLower)

getErrorMessage(error) ==
  IF error.t = "string" THEN error.v
  ELSE IF ~Falsy(PropMessage(error)) THEN PropMessage(error).v
  ELSE IF PropErrorMessages(error).t = "array"
    THEN join(PropErrorMessages(error).v, <<",", " ">>)
  ELSE IF PropErrors(error).t = "object" /\ Len(PropErrors(error).values) > 0
    THEN join(PropErrors(error).values, <<",", " ">>)
  ELSE <<"Unknown error occurred">>

FailedTo(operation) == <<"Failed to ", operation, ": ">>

handleJiraErrorValidationFirst(error, operation) ==
  IF isValidationError(error)
    THEN JiraValidationError(FailedTo(operation) \o getErrorMessage(error), error)
  ELSE IF isAuthenticationError(error)
    THEN JiraAuthenticationError(FailedTo(operation) \o getErrorMessage(error), error)
  ELSE JiraConnectionError(FailedTo(operation) \o getErrorMessage(error), error)
handleJiraError(error, operation) ==
  IF isAuthenticationError(error)
    THEN JiraAuthenticationError(FailedTo(operation) \o getErrorMessage(error), error)
  ELSE IF isValidationError(error)
    THEN JiraValidationError(FailedTo(operation) \o getErrorMessage(error), error)
  ELSE JiraConnectionError(FailedTo(operation) \o getErrorMessage(error), error)

AuthTypes == {"basic", "token", "oauth", "unsupported"}

buildClientOptions(type) ==
  IF type \in {"basic", "token", "oauth"}
    THEN Return(type)
    ELSE Throw(JiraValidationError(<<"Unsupported authentication type">>, Undefined))

ensureConnected(clientValue) ==
  IF clientValue = "null"
    THEN Throw(JiraConnectionError(
           <<"Jira client is not connected. Call connect() first.">>, Undefined))
    ELSE Return(Undefined)

testConnectionCatchViaHandleJiraError(error) ==
  handleJiraError(error, "test connection")
\* the catch block of testConnection
testConnectionCatch(error) ==
  IF isAuthenticationError(error)
    THEN JiraAuthenticationError(<<"Authentication failed: ">> \o getErrorMessage(error), error)
    ELSE JiraConnectionError(<<"Connection test failed: ">> \o getErrorMessage(error), error)

\* the catch block of connect
connectCatch(error) ==
  JiraConnectionError(<<"Failed to connect to Jira: ">> \o getErrorMessage(error), error)

SummaryLimit == 255

validateCreateIssueParams(params) ==
  IF Falsy(params.projectKey)
    THEN Throw(JiraValidationError(<<"Project key is required">>, Str(<<"projectKey">>)))
  ELSE IF Falsy(params.issueType)
    THEN Throw(JiraValidationError(<<"Issue type is required">>, Str(<<"issueType">>)))
  ELSE IF Falsy(params.summary) \/ Len(trim(params.summary.v)) = 0
    THEN Throw(JiraValidationError(<<"Summary is required and cannot be empty">>,
                                   Str(<<"summary">>)))
  ELSE IF Len(params.summary.v) > SummaryLimit
    THEN Throw(JiraValidationError(<<"Summary cannot exceed 255 characters">>,
                                   Str(<<"summary">>)))
  ELSE Return(Undefined)

ObjectAssignKeepTarget(target, source) ==
  [k \in (DOMAIN target) \cup (DOMAIN source) |->
     IF k \in DOMAIN target THEN target[k] ELSE source[k]]
\* Object.assign(target, source) on objects modelled as functions from keys
ObjectAssign(target, source) ==
  [k \in (DOMAIN target) \cup (DOMAIN source) |->
     IF k \in DOMAIN source THEN source[k] ELSE target[k]]

Field(k, v) == [x \in {k} |-> v]

buildIssueData(params) ==
  LET required == [x \in {"project", "issuetype", "summary"} |->
                     CASE x = "project" -> [key |-> params.projectKey]
                       [] x = "issuetype" -> [name |-> params.issueType]
                       [] x = "summary" -> params.summary]
      f1 == IF ~Falsy(params.description)
              THEN ObjectAssign(required, Field("description", params.description))
              ELSE required
      f2 == IF ~Falsy(params.priority)
              THEN ObjectAssign(f1, Field("priority", [name |-> params.priority]))
              ELSE f1
      f3 == IF ~Falsy(params.assignee)
              THEN ObjectAssign(f2, Field("assignee", [name |-> params.assignee]))
              ELSE f2
      f4 == IF params.labels.t = "array" /\ Len(params.labels.v) > 0
              THEN ObjectAssign(f3, Field("labels", params.labels))
              ELSE f3
      f5 == IF ~Falsy(params.customFields)
              THEN ObjectAssign(f4, params.customFields.v)
              ELSE f4
  IN [fields |-> f5]

\* String.prototype.split(',')
RECURSIVE splitComma(_)
splitComma(s) ==
  IF \A i \in 1..Len(s) : s[i] # ","
    THEN <<s>>
    ELSE LET i == CHOOSE k \in 1..Len(s) :
                    s[k] = "," /\ \A j \in 1..(k - 1) : s[j] # ","
         IN <<SubSeq(s, 1, i - 1)>> \o splitComma(SubSeq(s, i + 1, Len(s)))

DefaultMaxResults == 50

searchIssuesCallNoDefaults(clientValue, params) ==
  IF ensureConnected(clientValue).kind = "throw"
    THEN ensureConnected(clientValue)
    ELSE Await([req |-> "searchJira",
                arg |-> [jql |-> params.jql, startAt |-> params.startAt,
                         maxResults |-> params.maxResults,
                         fields |-> IF ~Falsy(params.fields)
                                      THEN Arr(splitComma(params.fields.v))
                                      ELSE Undefined]])
\* searchIssues up to its backend request
searchIssuesCall(clientValue, params) ==
  IF ensureConnected(clientValue).kind = "throw"
    THEN ensureConnected(clientValue)
    ELSE Await([req |-> "searchJira",
                arg |-> [jql |-> OrElse(params.jql, Str(<<>>)),
                         startAt |-> OrElse(params.startAt, Num(0)),
                         maxResults |-> OrElse(params.maxResults, Num(DefaultMaxResults)),
                         fields |-> IF ~Falsy(params.fields)
                                      THEN Arr(splitComma(params.fields.v))
                                      ELSE Undefined]])

\* createIssue up to its first backend request
createIssueCall(clientValue, params) ==
  IF ensureConnected(clientValue).kind = "throw"
    THEN ensureConnected(clientValue)
  ELSE IF validateCreateIssueParams(params).kind = "throw"
    THEN validateCreateIssueParams(params)
  ELSE Await([req |-> "addNewIssue", arg |-> buildIssueData(params)])

\* addComment up to its backend request
addCommentCall(clientValue, issueKey, body) ==
  IF ensureConnected(clientValue).kind = "throw"
    THEN ensureConnected(clientValue)
  ELSE IF Falsy(issueKey) \/ issueKey.t # "string"
    THEN Throw(JiraValidationError(<<"issueKey is required and must be a string">>,
                                   Str(<<"issueKey">>)))
  ELSE IF Falsy(body) \/ body.t # "string"
    THEN Throw(JiraValidationError(<<"body is required and must be a string">>,
                                   Str(<<"body">>)))
  ELSE Await([req |-> "addComment", arg |-> [issueKey |-> issueKey, body |-> body]])

\* testConnection up to its backend request
testConnectionCall(clientValue) ==
  IF clientValue = "null"
    THEN Return(Bool(FALSE))
    ELSE Await([req |-> "getCurrentUser", arg |-> Undefined])

OperationOf(req) ==
  CASE req = "searchJira" -> "search issues"
    [] req \in {"addNewIssue", "findIssue"} -> "create issue"
    [] req = "addComment" -> "add comment"

\* the reply of the backend to request req: ok |-> TRUE with the resolved
\* value, or ok |-> FALSE with the failure the promise was rejected with
Resolved(v) == [ok |-> TRUE, value |-> v]
Rejected(f) == [ok |-> FALSE, value |-> f]

\* searchIssues / createIssue / addComment from a backend reply on
createIssueResumeRefetchAnyway(req, reply) ==
  IF req = "addNewIssue"
    THEN Await([req |-> "findIssue",
                arg |-> IF reply.ok THEN reply.value.key ELSE Undefined])
  ELSE IF ~reply.ok THEN Throw(handleJiraError(reply.value, OperationOf(req)))
  ELSE Return(reply.value)
operationResume(req, reply) ==
  IF ~reply.ok
    THEN Throw(handleJiraError(reply.value, OperationOf(req)))
  ELSE IF req = "searchJira"
    THEN Return([expand |-> OrElse(reply.value.expand, Str(<<>>)),
                 startAt |-> reply.value.startAt,
                 maxResults |-> reply.value.maxResults,
                 total |-> reply.value.total,
                 issues |-> OrElse(reply.value.issues, Arr(<<>>))])
  ELSE IF req = "addNewIssue"
    THEN Await([req |-> "findIssue", arg |-> reply.value.key])
  ELSE Return(reply.value)

\* testConnection from the reply to its probe on
testConnectionResume(reply) ==
  IF reply.ok THEN Return(Bool(TRUE)) ELSE Throw(testConnectionCatch(reply.value))

\* connect from the reply to its probe on
connectResume(reply) ==
  IF testConnectionResume(reply).kind = "throw"
    THEN Throw(connectCatch(testConnectionResume(reply).value))
    ELSE Return(Undefined)

(***************************************************************************)
(* Argument validation of the tool handlers                                *)
(***************************************************************************)
ListParams(jql, maxResults, startAt, fields) ==
  [jql |-> jql, maxResults |-> maxResults, startAt |-> startAt, fields |-> fields]
CreateParams(projectKey, issueType, summary) ==
  [projectKey |-> projectKey, issueType |-> issueType, summary |-> summary,
   description |-> Undefined, priority |-> Undefined, assignee |-> Undefined,
   labels |-> Undefined, customFields |-> Undefined]

\* x.k for an untyped value x
Prop(x, k) == IF x.t = "object" /\ k \in DOMAIN x.v THEN x.v[k] ELSE Undefined

\* !args || typeof args !== 'object'
NotAnObject(args) == Falsy(args) \/ args.t \notin {"object", "array"}

\* x < n, x > n and Math.floor(x) for a number x and an integer n
Less(x, n) == x.v < n
Greater(x, n) == IF "half" \in DOMAIN x THEN x.v >= n ELSE x.v > n
floorMissing(x) == x
floor(x) == Num(x.v)

IsLetter(c) == IsUpper(c) \/ IsLower(c)
IsWordChar(c) == IsLetter(c) \/ IsDigit(c) \/ c = "_"

\* String.prototype.split('.')
RECURSIVE splitDot(_)
splitDot(s) ==
  IF \A i \in 1..Len(s) : s[i] # "."
    THEN <<s>>
    ELSE LET i == CHOOSE k \in 1..Len(s) :
                    s[k] = "." /\ \A j \in 1..(k - 1) : s[j] # "."
         IN <<SubSeq(s, 1, i - 1)>> \o splitDot(SubSeq(s, i + 1, Len(s)))

\* /^[a-zA-Z][a-zA-Z0-9_]*$/
MatchesIdentifier(s) ==
  Len(s) > 0 /\ IsLetter(s[1]) /\ \A i \in 2..Len(s) : IsWordChar(s[i])

\* /^[a-zA-Z][a-zA-Z0-9_]*(\.[a-zA-Z][a-zA-Z0-9_]*)*$/
MatchesFieldName(s) ==
  \A i \in 1..Len(splitDot(s)) : MatchesIdentifier(splitDot(s)[i])

\* /^[A-Z][A-Z0-9]*$/
MatchesProjectKeyPattern(s) ==
  Len(s) > 0 /\ IsUpper(s[1]) /\ \A i \in 2..Len(s) : IsUpper(s[i]) \/ IsDigit(s[i])

MaxResultsLimit == 1000

Map(f(_), seq) == [i \in 1..Len(seq) |-> f(seq[i])]
RECURSIVE Filter(_, _)
Filter(p(_), seq) ==
  IF seq = <<>> THEN <<>>
  ELSE IF p(Head(seq)) THEN <<Head(seq)>> \o Filter(p, Tail(seq))
  ELSE Filter(p, Tail(seq))

InvalidFieldName(field) == Len(field) = 0 \/ ~MatchesFieldName(field)

\* ListIssuesTool.validateAndParseParams
listIssuesValidate(args) ==
  IF NotAnObject(args)
    THEN Return(ListParams(Undefined, Undefined, Undefined, Undefined))
  ELSE IF Prop(args, "jql") # Undefined /\ Prop(args, "jql").t # "string"
    THEN Throw(Error(<<"jql parameter must be a string">>))
  ELSE IF /\ Prop(args, "maxResults") # Undefined
          /\ \/ Prop(args, "maxResults").t # "number"
             \/ Less(Prop(args, "maxResults"), 1)
             \/ Greater(Prop(args, "maxResults"), MaxResultsLimit)
    THEN Throw(Error(<<"maxResults must be a number between 1 and 1000">>))
  ELSE IF /\ Prop(args, "startAt") # Undefined
          /\ \/ Prop(args, "startAt").t # "number"
             \/ Less(Prop(args, "startAt"), 0)
    THEN Throw(Error(<<"startAt must be a non-negative number">>))
  ELSE IF Prop(args, "fields") # Undefined /\ Prop(args, "fields").t # "string"
    THEN Throw(Error(<<"fields parameter must be a string">>))
  ELSE
    LET fieldsString == IF Prop(args, "fields") = Undefined
                          THEN <<>>
                          ELSE trim(Prop(args, "fields").v)
        fieldNames == Map(trim, splitComma(fieldsString))
        invalidFields == Filter(InvalidFieldName, fieldNames)
    IN IF Len(fieldsString) > 0 /\ Len(invalidFields) > 0
         THEN Throw(Error(<<"Invalid field names: ">> \o join(invalidFields, <<",", " ">>)
                \o <<". Field names must contain only letters, numbers, and underscores.">>))
         ELSE Return(ListParams(
                IF Prop(args, "jql") = Undefined
                  THEN Undefined ELSE Str(trim(Prop(args, "jql").v)),
                IF Prop(args, "maxResults") = Undefined
                  THEN Undefined ELSE floor(Prop(args, "maxResults")),
                IF Prop(args, "startAt") = Undefined
                  THEN Undefined ELSE floor(Prop(args, "startAt")),
                IF Len(fieldsString) > 0 THEN Str(fieldsString) ELSE Undefined))

\* the optional string parameters of create-issue, trimmed
TrimmedOrAbsent(x) == IF x = Undefined THEN Undefined ELSE Str(trim(x.v))

NonBlank(label) == Len(trim(label.v)) > 0
TrimLabel(label) == Str(trim(label.v))

validLabelsKeepEmpty(labels) == Map(TrimLabel, labels.v)
\* the part of CreateIssueTool.validateAndParseParams that handles labels
validLabels(labels) == Map(TrimLabel, Filter(NonBlank, labels.v))

BlankKey(k) == k \in {"", " "}

\* CreateIssueTool.validateAndParseParams
createIssueValidate(args) ==
  IF NotAnObject(args)
    THEN Throw(Error(<<"Arguments are required for creating an issue">>))
  ELSE IF Falsy(Prop(args, "projectKey")) \/ Prop(args, "projectKey").t # "string"
    THEN Throw(Error(<<"projectKey is required and must be a string">>))
  ELSE IF Falsy(Prop(args, "issueType")) \/ Prop(args, "issueType").t # "string"
    THEN Throw(Error(<<"issueType is required and must be a string">>))
  ELSE IF Falsy(Prop(args, "summary")) \/ Prop(args, "summary").t # "string"
    THEN Throw(Error(<<"summary is required and must be a string">>))
  ELSE IF ~MatchesProjectKeyPattern(Prop(args, "projectKey").v)
    THEN Throw(Error(<<"projectKey must contain only uppercase letters and numbers, starting with a letter">>))
  ELSE IF Len(trim(Prop(args, "summary").v)) = 0
    THEN Throw(Error(<<"summary cannot be empty">>))
  ELSE IF Len(Prop(args, "summary").v) > SummaryLimit
    THEN Throw(Error(<<"summary cannot exceed 255 characters">>))
  ELSE IF Prop(args, "description") # Undefined /\ Prop(args, "description").t # "string"
    THEN Throw(Error(<<"description must be a string">>))
  ELSE IF Prop(args, "priority") # Undefined /\ Prop(args, "priority").t # "string"
    THEN Throw(Error(<<"priority must be a string">>))
  ELSE IF Prop(args, "assignee") # Undefined /\ Prop(args, "assignee").t # "string"
    THEN Throw(Error(<<"assignee must be a string">>))
  ELSE IF Prop(args, "labels") # Undefined /\ Prop(args, "labels").t # "array"
    THEN Throw(Error(<<"labels must be an array">>))
  ELSE IF /\ Prop(args, "labels") # Undefined
          /\ \E i \in 1..Len(Prop(args, "labels").v) : Prop(args, "labels").v[i].t # "string"
    THEN Throw(Error(<<"all labels must be strings">>))
  ELSE IF /\ Prop(args, "customFields") # Undefined
          /\ Prop(args, "customFields").t \notin {"object", "null"}
    THEN Throw(Error(<<"customFields must be an object">>))
  ELSE IF Prop(args, "customFields").t = "null"
    THEN Throw(TypeError(<<"Cannot convert undefined or null to object">>))
  ELSE IF /\ Prop(args, "customFields") # Undefined
          /\ \E k \in DOMAIN Prop(args, "customFields").v : BlankKey(k)
    THEN Throw(Error(<<"custom field keys must be non-empty strings">>))
  ELSE Return(
    [projectKey |-> Str(toUpperCase(trim(Prop(args, "projectKey").v))),
     issueType |-> Str(trim(Prop(args, "issueType").v)),
     summary |-> Str(trim(Prop(args, "summary").v)),
     description |-> TrimmedOrAbsent(Prop(args, "description")),
     priority |-> TrimmedOrAbsent(Prop(args, "priority")),
     assignee |-> TrimmedOrAbsent(Prop(args, "assignee")),
     labels |-> IF Prop(args, "labels") # Undefined
                   /\ Len(validLabels(Prop(args, "labels"))) > 0
                  THEN Arr(validLabels(Prop(args, "labels")))
                  ELSE Undefined,
     customFields |-> IF Prop(args, "customFields") # Undefined
                         /\ DOMAIN Prop(args, "customFields").v # {}
                        THEN Prop(args, "customFields")
                        ELSE Undefined])

addCommentValidateAbsentOnly(args) ==
  IF NotAnObject(args)
    THEN Throw(Error(<<"Arguments are required for adding a comment">>))
  ELSE IF Prop(args, "issueKey") = Undefined \/ Prop(args, "issueKey").t # "string"
    THEN Throw(Error(<<"issueKey is required and must be a string">>))
  ELSE IF Prop(args, "body") = Undefined \/ Prop(args, "body").t # "string"
    THEN Throw(Error(<<"body is required and must be a string">>))
  ELSE Return([issueKey |-> Str(trim(Prop(args, "issueKey").v)),
               body |-> Str(trim(Prop(args, "body").v))])
\* AddCommentTool.validateAndParseParams
addCommentValidate(args) ==
  IF NotAnObject(args)
    THEN Throw(Error(<<"Arguments are required for adding a comment">>))
  ELSE IF Falsy(Prop(args, "issueKey")) \/ Prop(args, "issueKey").t # "string"
    THEN Throw(Error(<<"issueKey is required and must be a string">>))
  ELSE IF Falsy(Prop(args, "body")) \/ Prop(args, "body").t # "string"
    THEN Throw(Error(<<"body is required and must be a string">>))
  ELSE Return([issueKey |-> Str(trim(Prop(args, "issueKey").v)),
               body |-> Str(trim(Prop(args, "body").v))])

(***************************************************************************)
(* The backend (jira-client): what it resolves or rejects a request with   *)
(***************************************************************************)
kP1 == <<"P","-","1">>

\* the failures a rejected request may carry: a status alone, a message
\* alone, both (agreeing or not), the text in errorMessages or errors only,
\* and a literal string
Failures ==
  {Failure(Num(401), Undefined, Undefined, Undefined, Undefined),
   Failure(Num(400), Undefined, Undefined, Undefined, Undefined),
   Failure(Num(500), Undefined, Str(tTimeout), Undefined, Undefined),
   Failure(Undefined, Undefined, Str(tUnauthorized), Undefined, Undefined),
   Failure(Undefined, Undefined, Str(tInvalidKey), Undefined, Undefined),
   Failure(Undefined, Undefined, Str(tValidation), Undefined, Undefined),
   Failure(Num(400), Undefined, Str(tUnauthorized), Undefined, Undefined),
   Failure(Num(401), Undefined, Str(tInvalidKey), Undefined, Undefined),
   Failure(Undefined, Num(401), Undefined, Undefined, Undefined),
   Failure(Undefined, Num(400), Str(<<>>), Undefined, Undefined),
   Failure(Undefined, Undefined, Undefined, Arr(<<tInvalidKey, tTimeout>>), Undefined),
   Failure(Undefined, Undefined, Undefined, Undefined,
           [t |-> "object", values |-> <<tUnauthorized>>]),
   Failure(Undefined, Undefined, Undefined, Undefined, Undefined),
   Str(tUnauthorized)}

\* what a request resolves with when the tracker accepts it
Resolutions(req) ==
  CASE req = "getCurrentUser" -> {[name |-> Str(<<"u">>)]}
    [] req = "searchJira" ->
         {[expand |-> Undefined, startAt |-> Num(0), maxResults |-> Num(50),
           total |-> Num(2), issues |-> Arr(<<kP1>>)]}
    [] req = "addNewIssue" -> {[key |-> Str(kP1)]}
    [] req = "findIssue" -> {[key |-> Str(kP1)]}
    [] req = "addComment" -> {[id |-> Str(<<"7">>)]}

Replies(req, failures) ==
  {Resolved(v) : v \in Resolutions(req)} \cup {Rejected(f) : f \in failures}

(***************************************************************************)
(* Calls in flight                                                         *)
(***************************************************************************)
IdleTask ==
  [pc |-> "idle",            \* "idle", "await" (a backend request is pending), "done"
   entry |-> "none",         \* the method or request handler the task runs
   adapter |-> NoAdapter,    \* the adapter whose method is in flight
   fresh |-> FALSE,          \* history: the adapter had no resolved connect() at the call
   headers |-> "none",       \* the credentials in the request's headers
   name |-> "none",          \* request.params.name
   args |-> Undefined,       \* request.params.arguments
   params |-> Undefined,     \* the validated parameters the handler works with
   tool |-> NoAdapter,       \* the adapter of the handler that executes the call
   request |-> Undefined,    \* the pending backend request
   failure |-> Undefined,    \* history: the failure of the last rejected request
   outcome |-> NoOutcome,    \* what the entry returned or threw
   thrown |-> Undefined,     \* history: the error that left the handler's execute
   origin |-> "none",        \* history: where that error arose
   adapterError |-> Undefined, \* history: the error the adapter threw to the handler
   afterError |-> FALSE,     \* history: an error response had been sent at the call
   log |-> <<>>]             \* history: the backend requests issued, in order

Free(t) == task[t].pc \in {"idle", "done"}

Issued(req, a) == [req |-> req, adapter |-> a, state |-> "pending"]
Settle(log, reply) ==
  [log EXCEPT ![Len(log)].state = IF reply.ok THEN "resolved" ELSE "rejected"]

\* the task after the adapter method `entry` on adapter a ran to step
Stepped(old, entry, a, step) ==
  [old EXCEPT
     !.pc = IF step.kind = "await" THEN "await" ELSE "done",
     !.entry = entry,
     !.adapter = a,
     !.request = IF step.kind = "await" THEN step.value ELSE Undefined,
     !.outcome = IF step.kind = "await" THEN NoOutcome ELSE step,
     !.log = IF step.kind = "await"
               THEN Append(old.log, Issued(step.value.req, a))
               ELSE old.log]

Begin(a) == [IdleTask EXCEPT !.fresh = ~connected[a]]

(***************************************************************************)
(* AdapterSpec: one JiraClientAdapter driven through its public methods    *)
(***************************************************************************)
TheAdapter == 1

sSummary == Str(<<"s">>)
sTask == Str(<<"T","a","s","k">>)
sProj == Str(<<"P">>)

AdapterSearchParams == {ListParams(Undefined, Undefined, Undefined, Undefined)}
AdapterCreateParams == {CreateParams(sProj, sTask, sSummary),
                        CreateParams(sProj, sTask, Str(<<" ">>))}
AdapterCommentBodies == {Str(<<"b">>), Str(<<>>)}

AdapterInit ==
  /\ client = [a \in AdapterIds |-> "null"]
  /\ authType \in {f \in [AdapterIds -> AuthTypes] :
                     \A a \in AdapterIds \ {TheAdapter} : f[a] = "basic"}
  /\ jiraClient = NoAdapter
  /\ listIssuesTool = NoAdapter
  /\ createIssueTool = NoAdapter
  /\ addCommentTool = NoAdapter
  /\ task = [t \in Callers |-> IdleTask]
  /\ connected = [a \in AdapterIds |-> FALSE]
  /\ probed = [a \in AdapterIds |-> FALSE]
  /\ input = Undefined

\* JiraClientAdapter.connect, up to the probe
connect(t) ==
  /\ Free(t)
  /\ LET a == TheAdapter
         options == buildClientOptions(authType[a])
     IN IF options.kind = "throw"
          THEN /\ task' = [task EXCEPT ![t] =
                    Stepped(Begin(a), "connect", a, Throw(connectCatch(options.value)))]
               /\ probed' = [probed EXCEPT ![a] = TRUE]
               /\ UNCHANGED client
          ELSE /\ client' = [client EXCEPT ![a] = "JiraApi"]
               /\ task' = [task EXCEPT ![t] =
                    Stepped(Begin(a), "connect", a, testConnectionCall(client'[a]))]
               /\ UNCHANGED probed
  /\ UNCHANGED <<authType, serverVars, connected, input>>

\* JiraClientAdapter.testConnection, up to the probe
testConnection(t) ==
  /\ Free(t)
  /\ task' = [task EXCEPT ![t] =
       Stepped(Begin(TheAdapter), "testConnection", TheAdapter,
               testConnectionCall(client[TheAdapter]))]
  /\ UNCHANGED <<client, authType, serverVars, connected, probed, input>>

\* JiraClientAdapter.searchIssues, up to the backend search
searchIssues(t) ==
  /\ Free(t)
  /\ \E params \in AdapterSearchParams :
       task' = [task EXCEPT ![t] =
         Stepped(Begin(TheAdapter), "searchIssues", TheAdapter,
                 searchIssuesCall(client[TheAdapter], params))]
  /\ UNCHANGED <<client, authType, serverVars, connected, probed, input>>

\* JiraClientAdapter.createIssue, up to the backend creation
createIssue(t) ==
  /\ Free(t)
  /\ \E params \in AdapterCreateParams :
       task' = [task EXCEPT ![t] =
         Stepped(Begin(TheAdapter), "createIssue", TheAdapter,
                 createIssueCall(client[TheAdapter], params))]
  /\ UNCHANGED <<client, authType, serverVars, connected, probed, input>>

\* JiraClientAdapter.addComment, up to the backend request
addComment(t) ==
  /\ Free(t)
  /\ \E body \in AdapterCommentBodies :
       task' = [task EXCEPT ![t] =
         Stepped(Begin(TheAdapter), "addComment", TheAdapter,
                 addCommentCall(client[TheAdapter], Str(kP1), body))]
  /\ UNCHANGED <<client, authType, serverVars, connected, probed, input>>

\* the method in flight, from the reply to its pending request on
MethodResume(entry, req, reply) ==
  CASE entry = "connect" -> connectResume(reply)
    [] entry = "testConnection" -> testConnectionResume(reply)
    [] OTHER -> operationResume(req, reply)

\* the backend answers the pending request of a method called on the adapter
AdapterReply(t) ==
  /\ task[t].pc = "await"
  /\ task[t].entry \in {"connect", "testConnection", "searchIssues",
                        "createIssue", "addComment"}
  /\ \E reply \in Replies(task[t].request.req, Failures) :
       LET old == [task[t] EXCEPT
                     !.log = Settle(@, reply),
                     !.failure = IF reply.ok THEN @ ELSE reply.value]
           step == MethodResume(old.entry, old.request.req, reply)
       IN /\ task' = [task EXCEPT ![t] = Stepped(old, old.entry, old.adapter, step)]
          /\ connected' = IF old.entry = "connect" /\ step.kind = "return"
                            THEN [connected EXCEPT ![old.adapter] = TRUE]
                            ELSE connected
          /\ probed' = IF old.entry = "connect" /\ step.kind = "throw"
                         THEN [probed EXCEPT ![old.adapter] = TRUE]
                         ELSE probed
  /\ UNCHANGED <<client, authType, serverVars, input>>

AdapterNext ==
  \E t \in Callers :
    \/ connect(t)
    \/ testConnection(t)
    \/ searchIssues(t)
    \/ createIssue(t)
    \/ addComment(t)
    \/ AdapterReply(t)

AdapterSpec == AdapterInit /\ [][AdapterNext]_vars

(***************************************************************************)
(* Tool handlers: execute                                                  *)
(***************************************************************************)
ToolNames == {"list-issues", "create-issue", "add-comment"}

validateAndParseParams(name, args) ==
  CASE name = "list-issues" -> listIssuesValidate(args)
    [] name = "create-issue" -> createIssueValidate(args)
    [] name = "add-comment" -> addCommentValidate(args)

HandlerPrefix(name) ==
  CASE name = "list-issues" -> "Failed to list issues: "
    [] name = "create-issue" -> "Failed to create issue: "
    [] name = "add-comment" -> "Failed to add comment: "

\* the catch block of execute
executeCatchKeepError(name, error) == error
executeCatch(name, error) ==
  Error(<<HandlerPrefix(name)>> \o
        (IF InstanceOfError(error) THEN error.message ELSE <<"Unknown error">>))

\* the adapter method a handler delegates to, up to its backend request
adapterCall(name, clientValue, params) ==
  CASE name = "list-issues" -> searchIssuesCall(clientValue, params)
    [] name = "create-issue" -> createIssueCall(clientValue, params)
    [] name = "add-comment" -> addCommentCall(clientValue, params.issueKey, params.body)

Plus(a, b) == Num(a.v + b.v)

enhanceFromQuery(name, params, result) ==
  CASE name = "list-issues" ->
         [result |-> result,
          metadata |->
            [query |-> OrElse(params.jql, Str(<<"No JQL query (returning all issues)">>)),
             returnedCount |-> Num(Len(result.issues.v)),
             totalAvailable |-> result.total,
             hasMore |-> Bool(OrElse(params.startAt, Num(0)).v + Len(result.issues.v)
                                < result.total.v),
             nextStartAt |-> Plus(OrElse(params.startAt, Num(0)),
                                  Num(Len(result.issues.v)))]]
    [] name = "create-issue" ->
         [result |-> result, metadata |-> [created |-> Bool(TRUE)]]
    [] name = "add-comment" -> result
\* the value execute returns once the adapter has returned result
enhance(name, params, result) ==
  CASE name = "list-issues" ->
         [result |-> result,
          metadata |->
            [query |-> OrElse(params.jql, Str(<<"No JQL query (returning all issues)">>)),
             returnedCount |-> Num(Len(result.issues.v)),
             totalAvailable |-> result.total,
             hasMore |-> Bool(result.startAt.v + Len(result.issues.v) < result.total.v),
             nextStartAt |-> Plus(result.startAt, Num(Len(result.issues.v)))]]
    [] name = "create-issue" ->
         [result |-> result,
          metadata |->
            [created |-> Bool(TRUE),
             url |-> Str(<<"<jira-instance>/browse/">> \o result.key.v),
             message |-> Str(<<"Issue ">> \o result.key.v \o <<" created successfully">>)]]
    [] name = "add-comment" -> result

\* what execute has done when it first suspends or ends: the validation
\* runs before the try block, the adapter call inside it
\* the properties of the argument bag, taken as they are
RawParams(name, args) ==
  CASE name = "list-issues" ->
         ListParams(Prop(args, "jql"), Prop(args, "maxResults"),
                    Prop(args, "startAt"), Prop(args, "fields"))
    [] name = "create-issue" ->
         CreateParams(Prop(args, "projectKey"), Prop(args, "issueType"),
                      Prop(args, "summary"))
    [] name = "add-comment" ->
         [issueKey |-> Prop(args, "issueKey"), body |-> Prop(args, "body")]
executeCallBeforeValidation(name, args, clientValue) ==
  LET v == validateAndParseParams(name, args)
      c == adapterCall(name, clientValue, RawParams(name, args))
  IN IF c.kind = "throw"
       THEN [step |-> Throw(executeCatch(name, c.value)), params |-> Undefined,
             origin |-> "adapter", adapterError |-> c.value]
       ELSE [step |-> c, params |-> RawParams(name, args),
             origin |-> IF v.kind = "throw" THEN "validation" ELSE "none",
             adapterError |-> Undefined]
executeCall(name, args, clientValue) ==
  LET v == validateAndParseParams(name, args)
      c == adapterCall(name, clientValue, v.value)
  IN IF v.kind = "throw"
       THEN [step |-> v, params |-> Undefined, origin |-> "validation",
             adapterError |-> Undefined]
     ELSE IF c.kind = "throw"
       THEN [step |-> Throw(executeCatch(name, c.value)), params |-> v.value,
             origin |-> "adapter", adapterError |-> c.value]
     ELSE [step |-> c, params |-> v.value, origin |-> "none",
           adapterError |-> Undefined]

\* execute from the reply to the adapter's pending request on
executeResume(name, params, req, reply) ==
  LET r == operationResume(req, reply)
  IN IF r.kind = "throw"
       THEN [step |-> Throw(executeCatch(name, r.value)), origin |-> "backend",
             adapterError |-> r.value]
     ELSE IF r.kind = "return"
       THEN [step |-> Return(enhance(name, params, r.value)), origin |-> "none",
             adapterError |-> Undefined]
     ELSE [step |-> r, origin |-> "none", adapterError |-> Undefined]

(***************************************************************************)
(* JiraMcpServer: the request handlers                                     *)
(***************************************************************************)
Json(v) == [t |-> "json", v |-> v]

\* the response of the tool-call handler for a result
successResponse(result) ==
  [content |-> <<[type |-> "text", text |-> Json(result)]>>, isError |-> Undefined]

\* the catch block of the tool-call handler
errorResponseRethrow(error) == Throw(error)
errorResponse(error) ==
  Return([content |-> <<[type |-> "text",
                         text |-> Str(<<"Error: ">> \o
                                      (IF InstanceOfError(error)
                                         THEN error.message
                                         ELSE <<"Unknown error occurred">>))]>>,
          isError |-> Bool(TRUE)])

\* the handler field the switch of the tool-call handler reads
ToolField(name, list, create, comment) ==
  CASE name = "list-issues" -> list
    [] name = "create-issue" -> create
    [] name = "add-comment" -> comment
    [] OTHER -> NoAdapter

Credentials == {"alice", "bob"}

\* the argument bags of the tool calls
sBody == Str(<<"b">>)
ToolCalls ==
  {[name |-> "list-issues", args |-> Undefined],
   [name |-> "list-issues", args |-> Obj([maxResults |-> Num(0)])],
   [name |-> "create-issue",
    args |-> Obj([projectKey |-> sProj, issueType |-> sTask, summary |-> sSummary])],
   [name |-> "create-issue",
    args |-> Obj([projectKey |-> Str(<<"1","P">>), issueType |-> sTask,
                  summary |-> sSummary])],
   [name |-> "add-comment", args |-> Obj([issueKey |-> Str(kP1), body |-> sBody])],
   [name |-> "add-comment", args |-> Obj([issueKey |-> Str(kP1), body |-> Str(<<>>)])],
   [name |-> "delete-issue", args |-> Undefined]}

\* the failures the tracker answers the server's requests with
ServerFailures ==
  {Failure(Num(401), Undefined, Str(tUnauthorized), Undefined, Undefined),
   Failure(Num(400), Undefined, Undefined, Arr(<<tInvalidKey>>), Undefined),
   Failure(Undefined, Undefined, Str(tTimeout), Undefined, Undefined)}

Init ==
  /\ client = [a \in AdapterIds |-> "null"]
  /\ authType = [a \in AdapterIds |-> "basic"]
  /\ jiraClient = NoAdapter
  /\ listIssuesTool = NoAdapter
  /\ createIssueTool = NoAdapter
  /\ addCommentTool = NoAdapter
  /\ task = [r \in Slots |-> IdleTask]
  /\ connected = [a \in AdapterIds |-> FALSE]
  /\ probed = [a \in AdapterIds |-> FALSE]
  /\ input = Undefined

\* requests are numbered in the order of their arrival
Arrives(r) ==
  /\ task[r].pc = "idle"
  /\ \A q \in Slots : q < r => task[q].pc # "idle"

ErrorSent ==
  \E q \in Slots :
    /\ task[q].pc = "done" /\ task[q].outcome.kind = "return"
    /\ task[q].entry = "callTool" /\ task[q].outcome.value.isError = Bool(TRUE)

Finish(old, outcome) ==
  [old EXCEPT !.pc = "done", !.request = Undefined, !.outcome = outcome]

\* initializeServer up to the probe of connect(): the adapter of request r is
\* built from the request's headers and stored in this.jiraClient
initializeServer(r, entry, headers, name, args) ==
  /\ Arrives(r)
  /\ buildClientOptions(authType[r]).kind = "return"
  /\ jiraClient' = r
  /\ client' = [client EXCEPT ![r] = "JiraApi"]
  /\ task' = [task EXCEPT ![r] =
       [Stepped(Begin(r), entry, r, testConnectionCall(client'[r])) EXCEPT
          !.headers = headers, !.name = name, !.args = args,
          !.afterError = ErrorSent]]
  /\ UNCHANGED <<authType, listIssuesTool, createIssueTool, addCommentTool,
                 connected, probed, input>>

\* a tools/call request arrives
CallTool(r) ==
  \E headers \in Credentials, call \in ToolCalls :
    initializeServer(r, "callTool", headers, call.name, call.args)

\* a tools/list request arrives
ListTools(r) ==
  \E headers \in Credentials :
    initializeServer(r, "listTools", headers, "none", Undefined)

\* the tool-call handler from the end of initializeServer to its first
\* suspension or its response
dispatch(old, list, create, comment) ==
  LET a == ToolField(old.name, list, create, comment)
      e == executeCall(old.name, old.args, client[a])
  IN IF old.name \notin ToolNames
       THEN Finish(old, errorResponse(Error(<<"Unknown tool: ", old.name>>)))
     ELSE IF a = NoAdapter
       THEN Finish(old, errorResponse(
              TypeError(<<"Cannot read properties of null (reading 'execute')">>)))
     ELSE IF e.step.kind = "await"
       THEN [old EXCEPT !.pc = "await", !.request = e.step.value,
                        !.params = e.params, !.tool = a, !.adapter = a,
                        !.origin = e.origin,
                        !.log = Append(@, Issued(e.step.value.req, a))]
     ELSE [Finish(old, errorResponse(e.step.value)) EXCEPT
             !.params = e.params, !.tool = a, !.adapter = a,
             !.thrown = e.step.value, !.origin = e.origin,
             !.adapterError = e.adapterError]

\* the tools/list handler from the end of initializeServer on
listDefinitions(old, list, create, comment) ==
  IF NoAdapter \in {list, create, comment}
    THEN Finish(old, Throw(
           TypeError(<<"Cannot read properties of null (reading 'getDefinition')">>)))
    ELSE Finish(old, Return([tools |-> <<"list-issues", "create-issue", "add-comment">>]))

\* the tracker answers the probe of connect(); initializeServer installs the
\* handlers on success and only logs on failure; the request handler goes on
ProbeReply(r) ==
  /\ task[r].pc = "await"
  /\ task[r].entry \in {"callTool", "listTools"}
  /\ task[r].request.req = "getCurrentUser"
  /\ \E reply \in Replies("getCurrentUser", ServerFailures) :
     \E old \in {[task[r] EXCEPT
                    !.log = Settle(@, reply),
                    !.failure = IF reply.ok THEN @ ELSE reply.value]} :
     \E ok \in {connectResume(reply).kind = "return"} :
       /\ listIssuesTool' = IF ok THEN jiraClient ELSE listIssuesTool
       /\ createIssueTool' = IF ok THEN jiraClient ELSE createIssueTool
       /\ addCommentTool' = IF ok THEN jiraClient ELSE addCommentTool
       /\ connected' = IF ok THEN [connected EXCEPT ![r] = TRUE] ELSE connected
       /\ probed' = IF ok THEN probed ELSE [probed EXCEPT ![r] = TRUE]
       /\ task' = [task EXCEPT ![r] =
            IF old.entry = "callTool"
              THEN dispatch(old, listIssuesTool', createIssueTool', addCommentTool')
              ELSE listDefinitions(old, listIssuesTool', createIssueTool',
                                   addCommentTool')]
  /\ UNCHANGED <<client, authType, jiraClient, input>>

\* the tracker answers the request of the adapter method a handler awaits
BackendReply(r) ==
  /\ task[r].pc = "await"
  /\ task[r].entry = "callTool"
  /\ task[r].request.req # "getCurrentUser"
  /\ \E reply \in Replies(task[r].request.req, ServerFailures) :
     \E old \in {[task[r] EXCEPT
                    !.log = Settle(@, reply),
                    !.failure = IF reply.ok THEN @ ELSE reply.value]} :
     \E e \in {executeResume(old.name, old.params, old.request.req, reply)} :
       task' = [task EXCEPT ![r] =
         IF e.step.kind = "await"
           THEN [old EXCEPT !.request = e.step.value,
                            !.log = Append(@, Issued(e.step.value.req, old.adapter))]
         ELSE IF e.step.kind = "return"
           THEN Finish(old, Return(successResponse(e.step.value)))
         ELSE [Finish(old, errorResponse(e.step.value)) EXCEPT
                 !.thrown = e.step.value, !.origin = e.origin,
                 !.adapterError = e.adapterError]]
  /\ UNCHANGED <<client, authType, serverVars, connected, probed, input>>

Next ==
  \E r \in Slots :
    \/ CallTool(r)
    \/ ListTools(r)
    \/ ProbeReply(r)
    \/ BackendReply(r)

Spec == Init /\ [][Next]_vars

(***************************************************************************)
(* CreateIssueSpec: CreateIssueTool.validateAndParseParams applied to      *)
(* argument bags whose projectKey ranges over short strings                *)
(***************************************************************************)
MaxKeyLen == 3
KeyAlphabet == {"p", "P", "1", " "}

RECURSIVE StringsUpTo(_, _)
StringsUpTo(alphabet, n) ==
  IF n = 0 THEN {<<>>}
  ELSE StringsUpTo(alphabet, n - 1)
       \cup {Append(w, c) : w \in {x \in StringsUpTo(alphabet, n - 1) : Len(x) = n - 1},
                            c \in alphabet}

CreateIssueInputs ==
  {Obj([projectKey |-> Str(k), issueType |-> sTask, summary |-> sSummary]) :
     k \in StringsUpTo(KeyAlphabet, MaxKeyLen)}

CreateIssueInit ==
  /\ client = [a \in AdapterIds |-> "null"]
  /\ authType = [a \in AdapterIds |-> "basic"]
  /\ jiraClient = NoAdapter
  /\ listIssuesTool = NoAdapter
  /\ createIssueTool = NoAdapter
  /\ addCommentTool = NoAdapter
  /\ task = [t \in {1} |-> IdleTask]
  /\ connected = [a \in AdapterIds |-> FALSE]
  /\ probed = [a \in AdapterIds |-> FALSE]
  /\ input \in CreateIssueInputs

\* validateAndParseParams of create-issue runs on the argument bag
ValidateCreateIssue ==
  /\ task[1].pc = "idle"
  /\ task' = [task EXCEPT ![1] =
       [Finish(IdleTask, createIssueValidate(input)) EXCEPT
          !.entry = "validateAndParseParams", !.name = "create-issue",
          !.args = input]]
  /\ UNCHANGED <<client, authType, serverVars, connected, probed, input>>

CreateIssueNext == ValidateCreateIssue

CreateIssueSpec == CreateIssueInit /\ [][CreateIssueNext]_vars

(***************************************************************************)
(* HandlerSpec: the three tool handlers over one connected adapter, each   *)
(* run of execute(args) on an argument bag drawn from the sets below       *)
(***************************************************************************)
MaxPad == 1        \* blanks around a text
MaxLabels == 2     \* entries of a labels array
MaxIssues == 1     \* issues on a page of search results

Repeat(c, n) == [i \in 1..n |-> c]

Call(name, args) == [name |-> name, args |-> args]

\* create-issue: summaries at the edges of the length limit, blanks around
SummaryLengths == {0, 1, SummaryLimit - 1, SummaryLimit, SummaryLimit + 1}
SummaryInputs ==
  {Call("create-issue",
        Obj([projectKey |-> sProj, issueType |-> sTask,
             summary |-> Str(Repeat(" ", a) \o Repeat("x", n) \o Repeat(" ", b))])) :
     a \in 0..MaxPad, b \in 0..MaxPad, n \in SummaryLengths}

\* list-issues: maxResults and startAt around their limits, whole and fractional
PagingNumbers ==
  {Num(n) : n \in {-1, 0, 1, 2, MaxResultsLimit, MaxResultsLimit + 1}}
    \cup {Half(n) : n \in {-1, 0, 1, MaxResultsLimit - 1, MaxResultsLimit}}
PagingInputs ==
  {Call("list-issues", Obj([maxResults |-> m])) : m \in PagingNumbers}
    \cup {Call("list-issues", Obj([startAt |-> m])) : m \in PagingNumbers}
    \cup {Call("list-issues", Obj([maxResults |-> m, startAt |-> Num(1)])) :
            m \in {Num(DefaultMaxResults), Half(2), Str(<<"5">>), Null}}

\* list-issues without arguments: absent, null, an empty bag
EmptyBag == Obj([k \in {} |-> Undefined])
NoArguments == {Undefined, Null, EmptyBag}
NoArgumentInputs == {Call("list-issues", args) : args \in NoArguments}

\* create-issue: labels with blanks and empty entries
LabelTexts == {<<>>, <<" ">>, <<"b">>, <<" ", "b">>, <<"c", " ">>}
LabelArrays == UNION {[1..n -> {Str(l) : l \in LabelTexts}] : n \in 0..MaxLabels}
LabelInputs ==
  {Call("create-issue",
        Obj([projectKey |-> sProj, issueType |-> sTask, summary |-> sSummary,
             labels |-> Arr(ls)])) : ls \in LabelArrays}
    \cup {Call("create-issue",
               Obj([projectKey |-> sProj, issueType |-> sTask, summary |-> sSummary,
                    labels |-> Arr(<<Str(<<>>), Str(<<" ", " ">>), Str(<<"b","u","g">>)>>)]))}

\* add-comment: issue keys and bodies that are empty, blank, or text
CommentTexts == {Repeat(" ", a) \o t \o Repeat(" ", b) :
                   a \in 0..MaxPad, b \in 0..MaxPad, t \in {<<>>, <<"b">>}}
CommentInputs ==
  {Call("add-comment", Obj([issueKey |-> Str(k), body |-> Str(b)])) :
     k \in {kP1, <<" ">>}, b \in CommentTexts}
    \cup {Call("add-comment", Obj([issueKey |-> Str(kP1)]))}

\* list-issues: fields strings of tokens, some malformed, blanks around
FieldTokens == {<<"a">>, <<"b", ".", "c">>, <<"1">>, <<"a", "-">>, <<>>}
FieldTexts ==
  {Repeat(" ", a) \o t \o Repeat(" ", b) : a \in 0..MaxPad, b \in 0..MaxPad, t \in FieldTokens}
    \cup {Repeat(" ", a) \o t \o <<",">> \o Repeat(" ", b) \o u :
            a \in 0..MaxPad, b \in 0..MaxPad, t \in FieldTokens, u \in FieldTokens}
FieldsInputs == {Call("list-issues", Obj([fields |-> Str(f)])) : f \in FieldTexts}

\* create-issue: optional fields present or not, custom fields that collide
CustomFieldBags ==
  {Obj([customfield_1 |-> Num(7)]),
   Obj([summary |-> Str(<<"o">>)]),
   Obj([project |-> Str(<<"Q">>), labels |-> Null]),
   Obj([description |-> Num(0), customfield_1 |-> Str(<<>>)]),
   EmptyBag}
OptionalTexts == {Undefined, Str(<<"d">>), Str(<<" ">>)}
CustomFieldInputs ==
  {Call("create-issue",
        Obj([projectKey |-> sProj, issueType |-> sTask, summary |-> sSummary,
             description |-> d, priority |-> p, assignee |-> d,
             labels |-> l, customFields |-> c])) :
     d \in OptionalTexts, p \in OptionalTexts,
     l \in {Undefined, Arr(<<Str(<<"b">>)>>)}, c \in CustomFieldBags \cup {Undefined}}

HandlerInputs ==
  SummaryInputs \cup PagingInputs \cup NoArgumentInputs \cup LabelInputs
    \cup CommentInputs \cup FieldsInputs \cup CustomFieldInputs

\* the pages the tracker may answer a search with
SearchPages ==
  {[expand |-> Undefined, startAt |-> Num(s), maxResults |-> Num(DefaultMaxResults),
    total |-> Num(n), issues |-> Arr(Repeat(kP1, k))] :
     s \in 0..MaxIssues, k \in 0..MaxIssues, n \in 0..(2 * MaxIssues + 1)}

HandlerReplies(req) ==
  IF req = "searchJira"
    THEN {Resolved(page) : page \in SearchPages} \cup {Rejected(f) : f \in ServerFailures}
    ELSE Replies(req, ServerFailures)

HandlerInit ==
  /\ client = [a \in AdapterIds |-> IF a = TheAdapter THEN "JiraApi" ELSE "null"]
  /\ authType = [a \in AdapterIds |-> "basic"]
  /\ jiraClient = TheAdapter
  /\ listIssuesTool = TheAdapter
  /\ createIssueTool = TheAdapter
  /\ addCommentTool = TheAdapter
  /\ task = [t \in {1} |-> IdleTask]
  /\ connected = [a \in AdapterIds |-> a = TheAdapter]
  /\ probed = [a \in AdapterIds |-> FALSE]
  /\ input \in HandlerInputs

\* the run of execute with the fields every later state keeps
Executing(old) ==
  [old EXCEPT !.entry = "execute", !.name = input.name, !.args = input.args,
              !.tool = TheAdapter, !.adapter = TheAdapter]

\* execute(args) up to the adapter's backend request, or to its end
execute ==
  /\ task[1].pc = "idle"
  /\ \E e \in {executeCall(input.name, input.args, client[TheAdapter])} :
       task' = [task EXCEPT ![1] =
         IF e.step.kind = "await"
           THEN [Executing(IdleTask) EXCEPT
                   !.pc = "await", !.request = e.step.value, !.params = e.params,
                   !.origin = e.origin,
                   !.log = <<Issued(e.step.value.req, TheAdapter)>>]
           ELSE [Finish(Executing(IdleTask), e.step) EXCEPT
                   !.params = e.params, !.thrown = e.step.value,
                   !.origin = e.origin, !.adapterError = e.adapterError]]
  /\ UNCHANGED <<client, authType, serverVars, connected, probed, input>>

\* the tracker answers the adapter's request; execute goes on to its end or
\* to the adapter's next request
executeReply ==
  /\ task[1].pc = "await"
  /\ task[1].entry = "execute"
  /\ \E reply \in HandlerReplies(task[1].request.req) :
     \E old \in {[task[1] EXCEPT
                    !.log = Settle(@, reply),
                    !.failure = IF reply.ok THEN @ ELSE reply.value]} :
     \E e \in {executeResume(old.name, old.params, old.request.req, reply)} :
       task' = [task EXCEPT ![1] =
         IF e.step.kind = "await"
           THEN [old EXCEPT !.request = e.step.value,
                            !.log = Append(@, Issued(e.step.value.req, old.adapter))]
         ELSE IF e.step.kind = "return"
           THEN Finish(old, e.step)
         ELSE [Finish(old, e.step) EXCEPT
                 !.thrown = e.step.value, !.origin = e.origin,
                 !.adapterError = e.adapterError]]
  /\ UNCHANGED <<client, authType, serverVars, connected, probed, input>>

HandlerNext == execute \/ executeReply

HandlerSpec == HandlerInit /\ [][HandlerNext]_vars

(***************************************************************************)
(* Claims about the adapter                                                *)
(***************************************************************************)
Operations == {"searchIssues", "createIssue", "addComment"}

NotConnectedMessage == <<"Jira client is not connected. Call connect() first.">>

Tasks == DOMAIN task

\* C1 (as claimed): an operation called on an adapter on which no connect()
\* has succeeded so far (none was called, or every one failed) issues no
\* backend request and fails with the "not connected" ConnectionError; so an
\* operation reaches the backend only after a successful connect().
C1_OperationsNeedSuccessfulConnect ==
  \A t \in Tasks :
    (task[t].entry \in Operations /\ task[t].fresh) =>
      /\ task[t].log = <<>>
      /\ task[t].pc = "done"
      /\ task[t].outcome.kind = "throw"
      /\ task[t].outcome.value.name = "JiraConnectionError"
      /\ task[t].outcome.value.message = NotConnectedMessage

\* the failure is an authentication failure: status 401, or a message that
\* contains "unauthorized" in any case
SameLetter(c, lower) == c = lower \/ c = ToUpperChar(lower)
ContainsAnyCase(s, word) ==
  \E i \in 1..Len(s) :
    /\ i + Len(word) - 1 <= Len(s)
    /\ \A k \in 1..Len(word) : SameLetter(s[i + k - 1], word[k])
HasStatus(f, n) == f.t = "object" /\ (f.statusCode = Num(n) \/ f.status = Num(n))
MessageHas(f, word) ==
  f.t = "object" /\ f.message.t = "string" /\ ContainsAnyCase(f.message.v, word)
AuthenticationFailure(f) == HasStatus(f, 401) \/ MessageHas(f, tUnauthorizedLower)
ValidationFailure(f) ==
  HasStatus(f, 400) \/ MessageHas(f, tValidationLower) \/ MessageHas(f, tInvalidLower)

\* a call that ended because the backend rejected a request
FailedOnBackend(t) == task[t].pc = "done" /\ task[t].failure # Undefined

\* C2 (as claimed): connect() rejected because of its probe throws
\* AuthenticationError when the probe's failure is an authentication failure
\* and ConnectionError otherwise.
C2_ConnectKindFollowsProbe ==
  \A t \in Tasks :
    (task[t].entry = "connect" /\ FailedOnBackend(t)) =>
      /\ task[t].outcome.kind = "throw"
      /\ task[t].outcome.value.name =
           IF AuthenticationFailure(task[t].failure)
             THEN "JiraAuthenticationError"
             ELSE "JiraConnectionError"

KindByRule(f) ==
  IF AuthenticationFailure(f) THEN "JiraAuthenticationError"
  ELSE IF ValidationFailure(f) THEN "JiraValidationError"
  ELSE "JiraConnectionError"

\* C3: every backend failure caught in searchIssues, createIssue or addComment
\* is surfaced as an error of exactly the kind the rule gives: authentication
\* (status 401 or message containing "unauthorized"), else validation (status
\* 400 or message containing "validation" or "invalid"), else connection.
C3_ClassificationRule ==
  \A t \in Tasks :
    (task[t].entry \in Operations /\ FailedOnBackend(t)) =>
      /\ task[t].outcome.kind = "throw"
      /\ task[t].outcome.value.name = KindByRule(task[t].failure)

\* C3 witness: a failure matching both conditions was surfaced as authentication
C3_Witness ==
  \E t \in Tasks :
    /\ task[t].entry \in Operations /\ FailedOnBackend(t)
    /\ AuthenticationFailure(task[t].failure) /\ ValidationFailure(task[t].failure)
    /\ task[t].outcome.value.name = "JiraAuthenticationError"

Status401(t) == FailedOnBackend(t) /\ task[t].failure.t = "object"
                /\ task[t].failure.statusCode = Num(401)

OperationName(entry) ==
  CASE entry = "searchIssues" -> "search issues"
    [] entry = "createIssue" -> "create issue"
    [] entry = "addComment" -> "add comment"

RequestsOf(entry) ==
  CASE entry \in {"connect", "testConnection"} -> <<"getCurrentUser">>
    [] entry = "searchIssues" -> <<"searchJira">>
    [] entry = "createIssue" -> <<"addNewIssue", "findIssue">>
    [] entry = "addComment" -> <<"addComment">>

\* C9: within one connect, searchIssues, createIssue or addComment every
\* backend request is issued at most once, and after a rejected request the
\* operation issues no further request: it ends with the mapped error.
C9_NoRetry ==
  \A t \in Tasks :
    task[t].entry \in Operations \cup {"connect"} =>
      /\ Len(task[t].log) <= Len(RequestsOf(task[t].entry))
      /\ \A i \in 1..Len(task[t].log) :
           /\ task[t].log[i].req = RequestsOf(task[t].entry)[i]
           /\ task[t].log[i].state = "rejected" =>
                /\ i = Len(task[t].log)
                /\ task[t].pc = "done"
                /\ task[t].outcome.kind = "throw"
           /\ task[t].log[i].state = "pending" =>
                (i = Len(task[t].log) /\ task[t].pc = "await")

\* C9 witness: createIssue ended on the rejection of its first request
C9_Witness ==
  \E t \in Tasks :
    /\ task[t].entry = "createIssue" /\ task[t].pc = "done"
    /\ Len(task[t].log) = 1 /\ task[t].log[1].state = "rejected"

(***************************************************************************)
(* Claims about the handlers and the dispatcher                            *)
(***************************************************************************)
LeftExecute(r) == task[r].entry = "callTool" /\ task[r].thrown # Undefined

\* C5 (as claimed): every failure leaving a handler's execute, from argument
\* validation or from the backend call, starts with the handler's prefix.
C5_EveryFailurePrefixed ==
  \A r \in Tasks :
    LeftExecute(r) =>
      startsWith(task[r].thrown.message, <<HandlerPrefix(task[r].name)>>)

\* C5 (amended): a failure leaving execute that arose in the adapter call
\* (its precondition, its own checks or the backend) starts with the handler's
\* prefix; a failure of the argument validation leaves execute as the
\* validator threw it, without the prefix.
C5_AdapterFailuresPrefixed ==
  \A r \in Tasks :
    LeftExecute(r) =>
      IF task[r].origin = "validation"
        THEN ~startsWith(task[r].thrown.message, <<HandlerPrefix(task[r].name)>>)
        ELSE startsWith(task[r].thrown.message, <<HandlerPrefix(task[r].name)>>)

\* C5 witness: a backend failure has left execute, and so has a validation failure
C5_Witness ==
  /\ \E r \in Tasks : LeftExecute(r) /\ task[r].origin = "backend"
  /\ \E r \in Tasks : LeftExecute(r) /\ task[r].origin = "validation"

Taxonomy == {"JiraConnectionError", "JiraAuthenticationError", "JiraValidationError"}

\* C6 (as claimed): a failure leaving execute has a kind of the taxonomy:
\* ValidationError when the validator rejected the arguments, the kind the
\* adapter assigned when the adapter call failed.
C6_KindPreserved ==
  \A r \in Tasks :
    LeftExecute(r) =>
      /\ task[r].thrown.name \in Taxonomy
      /\ task[r].origin = "validation" => task[r].thrown.name = "JiraValidationError"
      /\ task[r].origin \in {"backend", "adapter"} =>
           task[r].thrown.name = task[r].adapterError.name

Envelope(response) ==
  /\ Len(response.content) = 1
  /\ response.content[1].type = "text"
  /\ \/ /\ response.isError = Undefined
        /\ response.content[1].text.t = "json"
     \/ /\ response.isError = Bool(TRUE)
        /\ response.content[1].text.t = "string"
        /\ startsWith(response.content[1].text.v, <<"Error: ">>)

\* C7: every tool call the dispatcher has finished, whatever its name, its
\* arguments and the failures of initialization or backend, was answered by one
\* response envelope (success text or isError text beginning "Error: "), no
\* error escaped, and this holds also for calls that follow an error response.
C7_AlwaysAnEnvelope ==
  \A r \in Tasks :
    (task[r].entry = "callTool" /\ task[r].pc = "done") =>
      /\ task[r].outcome.kind = "return"
      /\ Envelope(task[r].outcome.value)

\* C7 witness: a call that arrived after an error response was answered, and
\* an unknown tool name was answered with an error response
C7_Witness ==
  /\ \E r \in Tasks :
       /\ task[r].entry = "callTool" /\ task[r].pc = "done" /\ task[r].afterError
       /\ task[r].outcome.kind = "return" /\ task[r].outcome.value.isError = Undefined
  /\ \E r \in Tasks :
       /\ task[r].entry = "callTool" /\ task[r].pc = "done"
       /\ task[r].name \notin ToolNames
       /\ task[r].outcome.value.isError = Bool(TRUE)

\* C8 (as claimed): when the arguments of a tool call fail validation, no
\* request has been sent to the tracker for that call.
C8_ValidationBeforeAnyRequest ==
  \A r \in Tasks :
    (task[r].entry = "callTool" /\ task[r].origin = "validation") =>
      task[r].log = <<>>

\* C8 (amended): when the arguments of a tool call fail validation, no request
\* of the tool's operation (search, create, re-fetch, add comment) is sent for
\* that call; the only request sent for it is the probe of the connect() the
\* dispatcher runs before the handler.
C8_ValidationBeforeOperationRequest ==
  \A r \in Tasks :
    (task[r].entry = "callTool" /\ task[r].origin = "validation") =>
      /\ Len(task[r].log) = 1
      /\ task[r].log[1].req = "getCurrentUser"
      /\ task[r].log[1].adapter = r

\* C8 witness: a create-issue call whose arguments failed validation was answered
C8_Witness ==
  \E r \in Tasks :
    /\ task[r].entry = "callTool" /\ task[r].origin = "validation"
    /\ task[r].pc = "done" /\ task[r].name = "create-issue"

\* trim, then upper-case: the normalization the claim speaks of
NormalizedKey(args) == toUpperCase(trim(Prop(args, "projectKey").v))

\* C10 (as claimed): create-issue validation (with the other arguments valid)
\* fails exactly when the trimmed and upper-cased projectKey does not match
\* ^[A-Z][A-Z0-9]*$, and hands the normalized key downstream when it passes.
C10_KeyDecidedAfterNormalizing ==
  (task[1].entry = "validateAndParseParams" /\ task[1].pc = "done") =>
    /\ task[1].outcome.kind = "throw" <=> ~MatchesProjectKeyPattern(NormalizedKey(input))
    /\ task[1].outcome.kind = "return" =>
         task[1].outcome.value.projectKey = Str(NormalizedKey(input))

(***************************************************************************)
(* Claims about the validators and the payloads, under HandlerSpec         *)
(***************************************************************************)
Ran == task[1].entry = "execute" /\ task[1].pc # "idle"
Rejected_ == task[1].origin = "validation"
Sent == task[1].pc = "await"

\* C11 (as claimed): create-issue validation accepts a summary exactly when
\* its length after trimming is between 1 and 255; a trimmed length of 256
\* fails with the length error; blanks around the summary do not count.
C11_SummaryLimitAfterTrim ==
  (Ran /\ input \in SummaryInputs) =>
    LET n == Len(trim(Prop(input.args, "summary").v))
    IN /\ Rejected_ <=> ~(1 <= n /\ n <= 255)
       /\ n = 256 => task[1].thrown.message = <<"summary cannot exceed 255 characters">>

AtLeast(x, n) == x.t = "number" /\ x.v >= n
AtMost(x, n) == x.t = "number" /\ IF "half" \in DOMAIN x THEN x.v < n ELSE x.v <= n
Floored(x) == Num(x.v)
Given(x) == x # Undefined

\* C12: for list-issues, a maxResults outside [1,1000] and a negative startAt
\* fail validation; otherwise the backend search receives the floored
\* maxResults (50 only when none was given) and the floored startAt.
C12_PagingPassedFloored ==
  (Ran /\ input \in PagingInputs) =>
    LET m == Prop(input.args, "maxResults")
        s == Prop(input.args, "startAt")
    IN IF \/ Given(m) /\ ~(AtLeast(m, 1) /\ AtMost(m, 1000))
          \/ Given(s) /\ ~AtLeast(s, 0)
         THEN Rejected_ /\ task[1].log = <<>>
         ELSE /\ ~Rejected_
              /\ task[1].log # <<>> /\ task[1].log[1].req = "searchJira"
              /\ Sent =>
                   /\ task[1].request.arg.maxResults =
                        (IF Given(m) THEN Floored(m) ELSE Num(50))
                   /\ task[1].request.arg.startAt =
                        (IF Given(s) THEN Floored(s) ELSE Num(0))

\* C12 witness: a fractional maxResults inside the range has reached the
\* backend floored, and a fractional startAt likewise
C12_Witness ==
  /\ Sent /\ input \in PagingInputs
  /\ Prop(input.args, "maxResults") = Half(2)
  /\ task[1].request.arg.maxResults = Num(2)
  /\ task[1].request.arg.startAt = Num(1)

\* C13: list-issues without arguments (absent, null, empty bag) performs
\* exactly one backend search, with jql "", startAt 0, maxResults 50 and no
\* fields restriction.
C13_NoArgumentsDefaultSearch ==
  (Ran /\ input \in NoArgumentInputs) =>
    /\ ~Rejected_
    /\ Len(task[1].log) = 1 /\ task[1].log[1].req = "searchJira"
    /\ Sent =>
         task[1].request.arg = [jql |-> Str(<<>>), startAt |-> Num(0),
                                maxResults |-> Num(50), fields |-> Undefined]

\* C13 witness: a call with an empty argument bag has returned its page
C13_Witness ==
  /\ input = Call("list-issues", EmptyBag)
  /\ task[1].pc = "done" /\ task[1].outcome.kind = "return"
  /\ Len(task[1].log) = 1

\* the labels the claim expects: each trimmed, the empty ones left out, in order
RECURSIVE KeptLabels(_)
KeptLabels(labels) ==
  IF labels = <<>> THEN <<>>
  ELSE IF trim(Head(labels).v) = <<>> THEN KeptLabels(Tail(labels))
  ELSE <<Str(trim(Head(labels).v))>> \o KeptLabels(Tail(labels))

\* C14: create-issue validation trims every label, drops those empty after
\* trimming, keeps the others in order, and omits labels from the parameters
\* and from the backend payload when none is left.
C14_LabelsTrimmedAndFiltered ==
  (Ran /\ input \in LabelInputs) =>
    LET kept == KeptLabels(Prop(input.args, "labels").v)
    IN /\ ~Rejected_
       /\ task[1].params.labels = (IF kept = <<>> THEN Undefined ELSE Arr(kept))
       /\ (Sent /\ task[1].request.req = "addNewIssue") =>
            IF kept = <<>>
              THEN "labels" \notin DOMAIN task[1].request.arg.fields
              ELSE /\ "labels" \in DOMAIN task[1].request.arg.fields
                   /\ task[1].request.arg.fields.labels = Arr(kept)

\* C14 witness: the labels "", "  ", "bug" have reached the payload as "bug"
C14_Witness ==
  /\ Sent /\ task[1].request.req = "addNewIssue"
  /\ Prop(input.args, "labels") =
       Arr(<<Str(<<>>), Str(<<" ", " ">>), Str(<<"b","u","g">>)>>)
  /\ task[1].request.arg.fields.labels = Arr(<<Str(<<"b","u","g">>)>>)

BodyRequired == <<"body is required and must be a string">>

\* C15: add-comment with a valid issueKey and an empty-string body fails
\* validation with "body is required and must be a string", as it does with
\* an absent body, and sends no request to the tracker.
C15_EmptyBodyRejected ==
  (/\ Ran /\ input.name = "add-comment"
   /\ Prop(input.args, "issueKey") = Str(kP1)
   /\ Prop(input.args, "body") \in {Str(<<>>), Undefined}) =>
    /\ Rejected_
    /\ task[1].pc = "done" /\ task[1].outcome.kind = "throw"
    /\ task[1].outcome.value.message = BodyRequired
    /\ task[1].log = <<>>

\* C15 witness: the call with the empty-string body has ended
C15_Witness ==
  /\ Ran /\ input = Call("add-comment", Obj([issueKey |-> Str(kP1), body |-> Str(<<>>)]))
  /\ task[1].pc = "done"

\* C16 (as claimed): whenever add-comment validation succeeds, the issueKey
\* and the body it hands to the adapter are non-empty strings.
C16_CommentParamsNonEmpty ==
  (Ran /\ input.name = "add-comment" /\ ~Rejected_) =>
    /\ task[1].params.issueKey.t = "string" /\ task[1].params.issueKey.v # <<>>
    /\ task[1].params.body.t = "string" /\ task[1].params.body.v # <<>>

WellFormedField(name) == Len(name) > 0 /\ MatchesFieldName(name)
IllFormedField(name) == ~WellFormedField(name)

\* C17 (as claimed): for list-issues with a fields argument, if any trimmed
\* comma-separated token fails the pattern the call fails and the message
\* lists every invalid token; otherwise every name the backend search receives
\* matches the pattern and the names arrive in the caller's order; a fields
\* string empty after trimming is omitted.
C17_FieldNamesWellFormed ==
  (Ran /\ input \in FieldsInputs) =>
    LET text == trim(Prop(input.args, "fields").v)
        tokens == Map(trim, splitComma(text))
        bad == Filter(IllFormedField, tokens)
    IN IF text = <<>>
         THEN ~Rejected_ /\ (Sent => task[1].request.arg.fields = Undefined)
       ELSE IF bad # <<>>
         THEN /\ Rejected_
              /\ \A i \in 1..Len(bad) : includes(task[1].thrown.message, bad[i])
       ELSE /\ ~Rejected_
            /\ Sent =>
                 /\ task[1].request.arg.fields.t = "array"
                 /\ \A i \in 1..Len(task[1].request.arg.fields.v) :
                      WellFormedField(task[1].request.arg.fields.v[i])
                 /\ Map(trim, task[1].request.arg.fields.v) = tokens

\* C19: on every successful list-issues call the metadata is derived from
\* the returned page: returnedCount is the number of issues returned,
\* totalAvailable the backend total, nextStartAt the page's startAt plus
\* returnedCount, and hasMore holds exactly when nextStartAt < total.
C19_MetadataDerivedFromPage ==
  (/\ Ran /\ input.name = "list-issues"
   /\ task[1].pc = "done" /\ task[1].outcome.kind = "return") =>
    LET page == task[1].outcome.value.result
        meta == task[1].outcome.value.metadata
    IN /\ meta.returnedCount = Num(Len(page.issues.v))
       /\ meta.totalAvailable = page.total
       /\ meta.nextStartAt = Num(page.startAt.v + Len(page.issues.v))
       /\ meta.hasMore = Bool(page.startAt.v + Len(page.issues.v) < page.total.v)

\* C19 witness: a page that starts past the first issue and has more to come
\* was returned for a query that gave no startAt
C19_Witness ==
  /\ Ran /\ input.name = "list-issues" /\ task[1].pc = "done"
  /\ task[1].outcome.kind = "return"
  /\ task[1].params.startAt = Undefined
  /\ task[1].outcome.value.result.startAt = Num(1)
  /\ task[1].outcome.value.metadata.hasMore = Bool(TRUE)
  /\ task[1].outcome.value.metadata.returnedCount = Num(1)

StandardFields == {"project", "issuetype", "summary"}
OptionalFields == {"description", "priority", "assignee", "labels"}

\* the value the payload carries for an optional parameter
PayloadValue(k, v) == IF k \in {"priority", "assignee"} THEN [name |-> v] ELSE v

\* C20: the payload createIssue sends has project.key, issuetype.name and
\* summary from the parameters, carries description, priority.name,
\* assignee.name and labels only when the parameters have them, and every
\* key of customFields holds the custom value, also when it collides with a
\* standard field.
C20_PayloadFromParams ==
  (Sent /\ task[1].request.req = "addNewIssue") =>
    LET p == task[1].params
        f == task[1].request.arg.fields
        custom == IF p.customFields = Undefined THEN {} ELSE DOMAIN p.customFields.v
    IN /\ \A k \in custom : k \in DOMAIN f /\ f[k] = p.customFields.v[k]
       /\ StandardFields \subseteq DOMAIN f
       /\ "project" \notin custom => f["project"] = [key |-> p.projectKey]
       /\ "issuetype" \notin custom => f["issuetype"] = [name |-> p.issueType]
       /\ "summary" \notin custom => f["summary"] = p.summary
       /\ \A k \in OptionalFields \ custom :
            /\ k \in DOMAIN f => p[k] # Undefined /\ f[k] = PayloadValue(k, p[k])
            /\ ~Falsy(p[k]) => k \in DOMAIN f
       /\ DOMAIN f \subseteq StandardFields \cup OptionalFields \cup custom

\* C20 witness: a custom field named summary has replaced the summary, next
\* to optional fields that were given
C20_Witness ==
  /\ Sent /\ task[1].request.req = "addNewIssue"
  /\ task[1].params.summary = sSummary
  /\ task[1].params.customFields = Obj([summary |-> Str(<<"o">>)])
  /\ task[1].request.arg.fields["summary"] = Str(<<"o">>)
  /\ "priority" \in DOMAIN task[1].request.arg.fields

(***************************************************************************)
(* Claims about tool discovery, under Spec                                 *)
(***************************************************************************)
ToolDefinitions == <<"list-issues", "create-issue", "add-comment">>

\* C18 (as claimed): every tools/list request is answered with exactly the
\* three definitions list-issues, create-issue and add-comment, whether or
\* not a tracker connection could be established for the request and whatever
\* requests came before.
C18_DiscoveryAlwaysThreeTools ==
  \A r \in Tasks :
    (task[r].entry = "listTools" /\ task[r].pc = "done") =>
      /\ task[r].outcome.kind = "return"
      /\ task[r].outcome.value.tools = ToolDefinitions

(***************************************************************************)
(* Claims about mapped errors, credentials, interleaving and creation      *)
(***************************************************************************)
\* C21 (as claimed): every error the adapter produces by mapping a backend
\* failure in searchIssues, createIssue or addComment, of whichever kind, has a
\* message "Failed to <operation>: <message>" and keeps the original failure
\* as its cause.
C21_MappedErrorKeepsCause ==
  \A t \in Tasks :
    (task[t].entry \in Operations /\ FailedOnBackend(t)) =>
      /\ task[t].outcome.kind = "throw"
      /\ task[t].outcome.value.message =
           FailedTo(OperationName(task[t].entry)) \o getErrorMessage(task[t].failure)
      /\ task[t].outcome.value.cause = task[t].failure

\* the requests of the tool's operation that call r has sent, by position in its log
OperationRequests(r) ==
  {i \in 1..Len(task[r].log) : task[r].log[i].req # "getCurrentUser"}

\* C22 (as claimed): a tool call whose own initialization failed (its
\* connect() was rejected) is never carried out through the adapter left over
\* from another request that carried different credentials.
C22_NoLeftoverAdapterAfterFailedInit ==
  \A r \in Tasks :
    (task[r].entry = "callTool" /\ probed[r]) =>
      \A i \in OperationRequests(r) :
        ~(/\ task[r].log[i].adapter # r
          /\ task[task[r].log[i].adapter].headers # task[r].headers)

\* C23 (as claimed): when two tool calls with different credentials are in
\* flight and interleave at their suspension points, a call whose own
\* connect() has completed sends its requests through the adapter built from
\* its own headers, never through the adapter the other call installed.
C23_InterleavedCallsUseOwnAdapter ==
  \A r \in Tasks : \A q \in Tasks \ {r} :
    (/\ task[r].entry = "callTool" /\ connected[r]
     /\ task[q].entry = "callTool"
     /\ task[q].headers # task[r].headers) =>
      \A i \in OperationRequests(r) : task[r].log[i].adapter # q

\* C24 (as claimed): a createIssue that surfaces an error has created no
\* issue: the tracker has accepted no creation request of that call.
C24_FailedCreateCreatesNothing ==
  \A t \in Tasks :
    (/\ task[t].entry = "createIssue" /\ task[t].pc = "done"
     /\ task[t].outcome.kind = "throw") =>
      \A i \in 1..Len(task[t].log) :
        ~(task[t].log[i].req = "addNewIssue" /\ task[t].log[i].state = "resolved")


====
